---- MODULE Spec2Model ----
(***************************************************************************)
(* Model of docling/models/ocr_mac_model.py: the generator                 *)
(* OcrMacModel.__call__ that streams pages, renders every non-degenerate   *)
(* OCR rectangle, runs the macOS recogniser on it and turns the normalised *)
(* bottom-left-origin detections into TextCells.                           *)
(*                                                                         *)
(* Python floats are modelled by exact rationals [n, d] in lowest terms;   *)
(* the values used here (tenths, quarters, integer pixel sizes) are far    *)
(* from the range where double rounding changes a comparison.              *)
(***************************************************************************)
EXTENDS Integers, Sequences, FiniteSets, TLC

VARIABLES
    enabled,         \* self.enabled, fixed by the constructor
    visualize_ocr,   \* settings.debug.visualize_ocr
    page_batch,      \* the input pages (page identities), in input order
    pos,             \* how many pages the generator has taken from page_batch
    pc,              \* position of the generator
    page,            \* local `page` (0: not yet bound)
    ocr_rects,       \* local `ocr_rects`
    ri,              \* position of the `for ocr_rect in ocr_rects` loop
    high_res_image,  \* local `high_res_image` (None: not bound)
    boxes,           \* local `boxes`
    cells,           \* local `cells`
    all_ocr_cells,   \* local `all_ocr_cells`
    page_cells,      \* page identity -> the page's cell collection
    yielded,         \* the pages handed to the consumer so far
    calls            \* every call made on a collaborator, and every yield, in order

vars == <<enabled, visualize_ocr, page_batch, pos, pc, page, ocr_rects, ri,
          high_res_image, boxes, cells, all_ocr_cells, page_cells, yielded, calls>>

----------------------------------------------------------------------------
(* Bounds of the model *)

MaxPages == 2     \* pages in a batch
MaxRects == 2     \* rectangles get_ocr_rects returns for one page
MaxDet == 2       \* detections the recogniser returns for one region
MaxRegions == 2   \* non-degenerate rectangles in the whole batch

----------------------------------------------------------------------------
(* Exact arithmetic standing for Python float arithmetic *)

RECURSIVE Gcd(_, _)
Gcd(a, b) == IF b = 0 THEN a ELSE Gcd(b, a % b)

Abs(a) == IF a < 0 THEN -a ELSE a

Rat(n, d) ==
    LET s == IF d < 0 THEN -1 ELSE 1
        g == Gcd(Abs(n), Abs(d))
    IN  [n |-> (s * n) \div g, d |-> (s * d) \div g]

FromInt(i) == [n |-> i, d |-> 1]
RAdd(a, b) == Rat(a.n * b.d + b.n * a.d, a.d * b.d)
RSub(a, b) == Rat(a.n * b.d - b.n * a.d, a.d * b.d)
RMul(a, b) == Rat(a.n * b.n, a.d * b.d)
RDiv(a, b) == Rat(a.n * b.d, a.d * b.n)
RLe(a, b) == a.n * b.d <= b.n * a.d

----------------------------------------------------------------------------
(* Inputs *)

\* candidate rectangles in page space, top-left origin: one of zero area
\* (zero width), two proper ones away from the page origin
ZeroRect == [l |-> 5, t |-> 5, r |-> 5, b |-> 9]
RectA == [l |-> 10, t |-> 20, r |-> 210, b |-> 320]
Rects == {ZeroRect, RectA}

\* detections (text, confidence, (x, y, w, h)) as the recogniser returns them
DetA == [text |-> "a", confidence |-> Rat(1, 1),
         box |-> <<Rat(1, 10), Rat(2, 10), Rat(3, 10), Rat(1, 10)>>]
DetB == [text |-> "b", confidence |-> Rat(1, 2),
         box |-> <<Rat(1, 2), Rat(1, 4), Rat(0, 1), Rat(1, 2)>>]

SeqsUpTo(S, n) == UNION {[1..k -> S] : k \in 0..n}

\* what get_ocr_rects may return: any list of up to MaxRects rectangles
RectLists == SeqsUpTo(Rects, MaxRects)

\* what the recogniser may return: no detection, or DetA, DetB, DetA, ... up to
\* MaxDet detections
Detected(i) == IF i % 2 = 1 THEN DetA ELSE DetB
RecognitionResults == {[i \in 1..k |-> Detected(i)] : k \in 0..MaxDet}

None == [page |-> 0, cropbox |-> [l |-> 0, t |-> 0, r |-> 0, b |-> 0],
         width |-> 0, height |-> 0]

----------------------------------------------------------------------------
(* Collaborators *)

\* self.scale: multiplier for 72 dpi == 216 dpi
scale == 3

\* BoundingBox.area() of a candidate rectangle
area(rect) == Abs(rect.r - rect.l) * Abs(rect.b - rect.t)

\* page._backend.get_page_image(scale=, cropbox=): the crop rendered at `scale`
\* pixels per page unit
get_page_image(p, s, cropbox) ==
    [page |-> p, cropbox |-> cropbox,
     width |-> s * (cropbox.r - cropbox.l),
     height |-> s * (cropbox.b - cropbox.t)]

\* the cells every page carries before this stage runs
InitialCells ==
    << [index |-> 0, text |-> "p", orig |-> "p", from_ocr |-> FALSE,
        confidence |-> Rat(1, 1),
        rect |-> [l |-> Rat(0, 1), t |-> Rat(0, 1), r |-> Rat(1, 1), b |-> Rat(1, 1),
                  coord_origin |-> "TOPLEFT"]] >>

\* BaseOcrModel.post_process_cells(ocr_cells, page): the page's cell collection
\* after the OCR cells have been merged into it
post_process_cells(ocr_cells, existing) == existing \o ocr_cells

Event(op, p, arg, ok) == [op |-> op, page |-> p, arg |-> arg, ok |-> ok]

NonDegenerate(rects) == {i \in DOMAIN rects : area(rects[i]) # 0}

\* the non-degenerate rectangles get_ocr_rects has returned so far
RECURSIVE RegionsSelected(_)
RegionsSelected(log) ==
    IF log = <<>> THEN 0
    ELSE (IF Head(log).op = "get_ocr_rects"
          THEN Cardinality(NonDegenerate(Head(log).arg)) ELSE 0)
         + RegionsSelected(Tail(log))

----------------------------------------------------------------------------
(* The coordinate mapping *)

BoxToRect_noflip(box, im_width, im_height) ==
    LET x == box[1]
        y == box[2]
        w == box[3]
        h == box[4]
        x1 == RMul(x, FromInt(im_width))
        y1 == RMul(y, FromInt(im_height))
        x2 == RAdd(x1, RMul(w, FromInt(im_width)))
        y2 == RAdd(y1, RMul(h, FromInt(im_height)))
    IN  [l |-> RDiv(x1, FromInt(scale)), t |-> RDiv(y1, FromInt(scale)),
         r |-> RDiv(x2, FromInt(scale)), b |-> RDiv(y2, FromInt(scale)),
         coord_origin |-> "TOPLEFT"]

\* lines 99-127: (x, y, w, h), normalised and bottom-left origin, to
\* (left, top, right, bottom), top-left origin
BoxToRect(box, im_width, im_height) ==
    LET x == box[1]
        y == box[2]
        w == box[3]
        h == box[4]
        x1 == RMul(x, FromInt(im_width))
        y2 == RMul(RSub(FromInt(1), y), FromInt(im_height))
        x2 == RAdd(x1, RMul(w, FromInt(im_width)))
        y1 == RSub(y2, RMul(h, FromInt(im_height)))
        left == RDiv(x1, FromInt(scale))
        top == RDiv(y1, FromInt(scale))
        right == RDiv(x2, FromInt(scale))
        bottom == RDiv(y2, FromInt(scale))
    IN  [l |-> left, t |-> top, r |-> right, b |-> bottom,
         coord_origin |-> "TOPLEFT"]

TextCellOf_onebased(i, det, im_width, im_height) ==
    [index |-> i, text |-> det.text, orig |-> det.text, from_ocr |-> TRUE,
     confidence |-> det.confidence,
     rect |-> BoxToRect(det.box, im_width, im_height)]

\* lines 98, 115-129: the TextCell of the i-th detection (i counts from 1 here,
\* enumerate counts from 0)
TextCellOf(i, det, im_width, im_height) ==
    [index |-> i - 1, text |-> det.text, orig |-> det.text, from_ocr |-> TRUE,
     confidence |-> det.confidence,
     rect |-> BoxToRect(det.box, im_width, im_height)]

\* lines 96-129: the cells of one region
MapBoxes(bxs, image) ==
    [i \in 1..Len(bxs) |-> TextCellOf(i, bxs[i], image.width, image.height)]

----------------------------------------------------------------------------
(* The generator *)

Init ==
    /\ enabled \in BOOLEAN
    /\ visualize_ocr \in BOOLEAN
    /\ page_batch \in {[i \in 1..n |-> i] : n \in 0..MaxPages}
    /\ pos = 0
    /\ pc = "loop"
    /\ page = 0
    /\ ocr_rects = <<>>
    /\ ri = 1
    /\ high_res_image = None
    /\ boxes = <<>>
    /\ cells = <<>>
    /\ all_ocr_cells = <<>>
    /\ page_cells = [p \in 1..Len(page_batch) |-> InitialCells]
    /\ yielded = <<>>
    /\ calls = <<>>

locals == <<page, ocr_rects, ri, high_res_image, boxes, cells, all_ocr_cells>>
config == <<enabled, visualize_ocr, page_batch>>

PassThrough_checks ==
    /\ ~enabled
    /\ pc = "loop"
    /\ pos < Len(page_batch)
    /\ pos' = pos + 1
    /\ yielded' = Append(yielded, page_batch[pos + 1])
    /\ calls' = calls \o << Event("is_valid", page_batch[pos + 1], TRUE, TRUE),
                            Event("yield", page_batch[pos + 1], <<>>, TRUE) >>
    /\ UNCHANGED <<config, pc, locals, page_cells>>

\* lines 62-63: `yield from page_batch`, one page
PassThrough ==
    /\ ~enabled
    /\ pc = "loop"
    /\ pos < Len(page_batch)
    /\ pos' = pos + 1
    /\ yielded' = Append(yielded, page_batch[pos + 1])
    /\ calls' = Append(calls, Event("yield", page_batch[pos + 1], <<>>, TRUE))
    /\ UNCHANGED <<config, pc, locals, page_cells>>

\* lines 63-64: page_batch is exhausted, return
PassThroughReturn ==
    /\ ~enabled
    /\ pc = "loop"
    /\ pos = Len(page_batch)
    /\ pc' = "done"
    /\ UNCHANGED <<config, pos, locals, page_cells, yielded, calls>>

InvalidPage_post ==
    /\ enabled
    /\ pc = "loop"
    /\ pos < Len(page_batch)
    /\ pos' = pos + 1
    /\ page' = page_batch[pos + 1]
    /\ yielded' = Append(yielded, page')
    /\ page_cells' = [page_cells EXCEPT ![page'] = post_process_cells(<<>>, @)]
    /\ calls' = calls \o << Event("is_valid", page', FALSE, TRUE),
                            Event("post_process_cells", page', <<>>, TRUE),
                            Event("yield", page', <<>>, TRUE) >>
    /\ UNCHANGED <<config, pc, ocr_rects, ri, high_res_image, boxes, cells,
                   all_ocr_cells>>

InvalidPage_drop ==
    /\ enabled
    /\ pc = "loop"
    /\ pos < Len(page_batch)
    /\ pos' = pos + 1
    /\ page' = page_batch[pos + 1]
    /\ calls' = Append(calls, Event("is_valid", page', FALSE, TRUE))
    /\ UNCHANGED <<config, pc, ocr_rects, ri, high_res_image, boxes, cells,
                   all_ocr_cells, page_cells, yielded>>

\* lines 66-69: the next page's backend is not valid, the page is yielded as is
InvalidPage ==
    /\ enabled
    /\ pc = "loop"
    /\ pos < Len(page_batch)
    /\ pos' = pos + 1
    /\ page' = page_batch[pos + 1]
    /\ yielded' = Append(yielded, page')
    /\ calls' = calls \o << Event("is_valid", page', FALSE, TRUE),
                            Event("yield", page', <<>>, TRUE) >>
    /\ UNCHANGED <<config, pc, ocr_rects, ri, high_res_image, boxes, cells,
                   all_ocr_cells, page_cells>>

\* lines 66-74: the next page's backend is valid; select its regions
BeginPage ==
    /\ enabled
    /\ pc = "loop"
    /\ pos < Len(page_batch)
    /\ pos' = pos + 1
    /\ page' = page_batch[pos + 1]
    /\ \E rects \in RectLists :
        /\ RegionsSelected(calls) + Cardinality(NonDegenerate(rects)) <= MaxRegions
        /\ ocr_rects' = rects
        /\ calls' = calls \o << Event("is_valid", page', TRUE, TRUE),
                                Event("get_ocr_rects", page', rects, TRUE) >>
    /\ all_ocr_cells' = <<>>
    /\ ri' = 1
    /\ pc' = "rects"
    /\ UNCHANGED <<config, high_res_image, boxes, cells, page_cells, yielded>>

\* line 66: page_batch is exhausted, the generator ends
LoopExhausted ==
    /\ enabled
    /\ pc = "loop"
    /\ pos = Len(page_batch)
    /\ pc' = "done"
    /\ UNCHANGED <<config, pos, locals, page_cells, yielded, calls>>

SkipZeroArea_break ==
    /\ pc = "rects"
    /\ ri <= Len(ocr_rects)
    /\ area(ocr_rects[ri]) = 0
    /\ ri' = Len(ocr_rects) + 1
    /\ UNCHANGED <<config, pos, pc, page, ocr_rects, high_res_image, boxes, cells,
                   all_ocr_cells, page_cells, yielded, calls>>

\* lines 75-78: a zero-area rectangle is skipped
SkipZeroArea ==
    /\ pc = "rects"
    /\ ri <= Len(ocr_rects)
    /\ area(ocr_rects[ri]) = 0
    /\ ri' = ri + 1
    /\ UNCHANGED <<config, pos, pc, page, ocr_rects, high_res_image, boxes, cells,
                   all_ocr_cells, page_cells, yielded, calls>>

\* lines 79-87: the rectangle is rendered and staged for the recogniser
Render ==
    /\ pc = "rects"
    /\ ri <= Len(ocr_rects)
    /\ area(ocr_rects[ri]) # 0
    /\ high_res_image' = get_page_image(page, scale, ocr_rects[ri])
    /\ calls' = Append(calls, Event("get_page_image", page,
                                    [scale |-> scale, cropbox |-> ocr_rects[ri]], TRUE))
    /\ pc' = "recognize"
    /\ UNCHANGED <<config, pos, page, ocr_rects, ri, boxes, cells, all_ocr_cells,
                   page_cells, yielded>>

RenderFails_caught ==
    /\ pc = "rects"
    /\ ri <= Len(ocr_rects)
    /\ area(ocr_rects[ri]) # 0
    /\ calls' = Append(calls, Event("get_page_image", page,
                                    [scale |-> scale, cropbox |-> ocr_rects[ri]], FALSE))
    /\ ri' = ri + 1
    /\ UNCHANGED <<config, pos, pc, page, ocr_rects, high_res_image, boxes, cells,
                   all_ocr_cells, page_cells, yielded>>

\* lines 79-81: get_page_image raises; nothing catches it
RenderFails ==
    /\ pc = "rects"
    /\ ri <= Len(ocr_rects)
    /\ area(ocr_rects[ri]) # 0
    /\ calls' = Append(calls, Event("get_page_image", page,
                                    [scale |-> scale, cropbox |-> ocr_rects[ri]], FALSE))
    /\ pc' = "failed"
    /\ UNCHANGED <<config, pos, page, ocr_rects, ri, high_res_image, boxes, cells,
                   all_ocr_cells, page_cells, yielded>>

\* lines 89-132: the recogniser returns its detections, which become the
\* region's cells and are appended to the page's list
Recognize ==
    /\ pc = "recognize"
    /\ \E bxs \in RecognitionResults :
        /\ boxes' = bxs
        /\ cells' = MapBoxes(bxs, high_res_image)
        /\ calls' = Append(calls, Event("recognize", page,
                                        [cropbox |-> ocr_rects[ri], boxes |-> bxs], TRUE))
    /\ all_ocr_cells' = all_ocr_cells \o cells'
    /\ ri' = ri + 1
    /\ pc' = "rects"
    /\ UNCHANGED <<config, pos, page, ocr_rects, high_res_image, page_cells, yielded>>

\* lines 89-94: the recogniser raises; nothing catches it
RecognizeFails ==
    /\ pc = "recognize"
    /\ calls' = Append(calls, Event("recognize", page,
                                    [cropbox |-> ocr_rects[ri], boxes |-> <<>>], FALSE))
    /\ pc' = "failed"
    /\ UNCHANGED <<config, pos, page, ocr_rects, ri, high_res_image, boxes, cells,
                   all_ocr_cells, page_cells, yielded>>

FinishPage_skipempty ==
    /\ pc = "rects"
    /\ ri > Len(ocr_rects)
    /\ page_cells' = IF all_ocr_cells = <<>> THEN page_cells
                     ELSE [page_cells EXCEPT ![page] = post_process_cells(all_ocr_cells, @)]
    /\ calls' = calls
                \o (IF all_ocr_cells = <<>> THEN <<>>
                    ELSE << Event("post_process_cells", page, all_ocr_cells, TRUE) >>)
                \o (IF visualize_ocr
                    THEN << Event("draw_ocr_rects_and_cells", page, ocr_rects, TRUE) >>
                    ELSE <<>>)
                \o << Event("yield", page, <<>>, TRUE) >>
    /\ yielded' = Append(yielded, page)
    /\ pc' = "loop"
    /\ UNCHANGED <<config, pos, locals>>

\* lines 134-141: the region loop is over; post-process, draw if asked, yield
FinishPage ==
    /\ pc = "rects"
    /\ ri > Len(ocr_rects)
    /\ page_cells' = [page_cells EXCEPT ![page] = post_process_cells(all_ocr_cells, @)]
    /\ calls' = calls
                \o << Event("post_process_cells", page, all_ocr_cells, TRUE) >>
                \o (IF visualize_ocr
                    THEN << Event("draw_ocr_rects_and_cells", page, ocr_rects, TRUE) >>
                    ELSE <<>>)
                \o << Event("yield", page, <<>>, TRUE) >>
    /\ yielded' = Append(yielded, page)
    /\ pc' = "loop"
    /\ UNCHANGED <<config, pos, locals>>

Next ==
    \/ PassThrough
    \/ PassThroughReturn
    \/ InvalidPage
    \/ BeginPage
    \/ LoopExhausted
    \/ SkipZeroArea
    \/ Render
    \/ RenderFails
    \/ Recognize
    \/ RecognizeFails
    \/ FinishPage

Spec == Init /\ [][Next]_vars

----------------------------------------------------------------------------
(* Vocabulary of the properties *)

OfPage(op, p) == SelectSeq(calls, LAMBDA e : e.op = op /\ e.page = p)
IdxOf(op, p) == {i \in DOMAIN calls : calls[i].op = op /\ calls[i].page = p}
Recognized(p) == SelectSeq(calls, LAMBDA e : e.op = "recognize" /\ e.page = p /\ e.ok)
Rendered(p) == SelectSeq(calls, LAMBDA e : e.op = "get_page_image" /\ e.page = p /\ e.ok)

RECURSIVE Flatten(_)
Flatten(ss) == IF ss = <<>> THEN <<>> ELSE Head(ss) \o Flatten(Tail(ss))

Texts(s) == [i \in DOMAIN s |-> s[i].text]
Indices(s) == [i \in DOMAIN s |-> s[i].index]
Cropboxes(s) == [i \in DOMAIN s |-> s[i].arg.cropbox]
UpFrom0(n) == [i \in 1..n |-> i - 1]
HasExtent(rect) == rect.l # rect.r /\ rect.t # rect.b
IsPrefix(s, t) == Len(s) <= Len(t) /\ \A i \in DOMAIN s : s[i] = t[i]
Failed == \E i \in DOMAIN calls : ~calls[i].ok
Pages == 1..Len(page_batch)
InProgress == pc \in {"rects", "recognize"}

\* the pages whose backend was found valid / invalid so far
ValidPages == {q \in Pages : \E i \in IdxOf("is_valid", q) : calls[i].arg}
InvalidPages == {q \in Pages : \E i \in IdxOf("is_valid", q) : ~calls[i].arg}

\* the cell collection a page must have, given the post_process_cells calls made
CellsGiven(q) ==
    IF OfPage("post_process_cells", q) = <<>> THEN InitialCells
    ELSE InitialCells \o OfPage("post_process_cells", q)[1].arg

----------------------------------------------------------------------------
(* C1: every emitted cell's rect is the detection's position on the page:   *)
(* the crop's top-left corner (l, t) plus the detection's place inside the  *)
(* crop, top-left origin, native scale.                                     *)
C1_PageCoordinates ==
    \A i \in DOMAIN cells :
        LET crop == high_res_image.cropbox
            cw == FromInt(crop.r - crop.l)
            ch == FromInt(crop.b - crop.t)
            x == boxes[i].box[1]
            y == boxes[i].box[2]
            w == boxes[i].box[3]
            h == boxes[i].box[4]
            fromTop == RSub(RSub(FromInt(1), y), h)
        IN  /\ cells[i].rect.l = RAdd(FromInt(crop.l), RMul(x, cw))
            /\ cells[i].rect.t = RAdd(FromInt(crop.t), RMul(fromTop, ch))
            /\ cells[i].rect.r = RAdd(FromInt(crop.l), RMul(RAdd(x, w), cw))
            /\ cells[i].rect.b = RAdd(FromInt(crop.t), RMul(RAdd(fromTop, h), ch))

(* C2: the pages yielded are always a prefix of the input, nothing dropped, *)
(* duplicated or reordered: every page taken from the input has been        *)
(* yielded except the one being processed; when the generator ends without  *)
(* a failed call the output is the whole input.                             *)
C2_YieldedPrefix ==
    /\ IsPrefix(yielded, page_batch)
    /\ pc = "loop" => Len(yielded) = pos
    /\ InProgress => Len(yielded) = pos - 1
    /\ pc = "done" => yielded = page_batch /\ ~Failed
    /\ pc = "failed" => Failed

C2_Witness ==
    /\ enabled
    /\ pc = "done"
    /\ Len(yielded) = 2
    /\ InvalidPages # {}
    /\ \E q \in Pages : Recognized(q) # <<>>

(* C3: a disabled stage yields the input pages in order and does nothing    *)
(* else: no call on any collaborator, no cell collection changed.           *)
C3_DisabledNoEffects ==
    ~enabled =>
        /\ \A i \in DOMAIN calls : calls[i].op = "yield"
        /\ \A q \in Pages : page_cells[q] = InitialCells
        /\ yielded = SubSeq(page_batch, 1, pos)
        /\ pc \in {"loop", "done"}
        /\ pc = "done" => yielded = page_batch
        /\ high_res_image = None /\ all_ocr_cells = <<>> /\ ocr_rects = <<>>

C3_Witness == ~enabled /\ pc = "done" /\ Len(yielded) = 2

(* C4: a page whose backend is not valid is yielded at once with its cells  *)
(* as they were: the only events of that page are the validity check and    *)
(* the yield next to it, nothing is raised, and the generator is back at    *)
(* the head of its loop for the next page.                                  *)
C4_InvalidPassThrough ==
    \A i \in DOMAIN calls :
        (calls[i].op = "is_valid" /\ ~calls[i].arg) =>
            LET q == calls[i].page
            IN  /\ enabled
                /\ i < Len(calls)
                /\ calls[i + 1].op = "yield" /\ calls[i + 1].page = q
                /\ {j \in DOMAIN calls : calls[j].page = q} = {i, i + 1}
                /\ page_cells[q] = InitialCells
                /\ \E k \in DOMAIN yielded : yielded[k] = q /\ page_batch[k] = q
                /\ i + 1 = Len(calls) => pc \in {"loop", "done"}

C4_Witness ==
    /\ pc = "done"
    /\ 1 \in InvalidPages
    /\ Recognized(2) # <<>>
    /\ yielded = <<1, 2>>

(* C5: a zero-area rectangle is never rendered or recognised and gives no   *)
(* cell; the rectangles after it are still processed: when the page is      *)
(* post-processed, exactly its rectangles with an extent were rendered, in  *)
(* order, and the list handed over holds the cells of those alone.          *)
C5_ZeroAreaSkipped ==
    /\ \A i \in DOMAIN calls :
        calls[i].op \in {"get_page_image", "recognize"} => HasExtent(calls[i].arg.cropbox)
    /\ \A q \in Pages :
        OfPage("post_process_cells", q) # <<>> =>
            /\ Cropboxes(Rendered(q)) = SelectSeq(OfPage("get_ocr_rects", q)[1].arg, HasExtent)
            /\ Cropboxes(Recognized(q)) = Cropboxes(Rendered(q))
            /\ Len(OfPage("post_process_cells", q)[1].arg)
                 = Len(Flatten([k \in DOMAIN Recognized(q) |-> Recognized(q)[k].arg.boxes]))

C5_Witness ==
    \E q \in Pages :
        /\ OfPage("post_process_cells", q) # <<>>
        /\ OfPage("get_ocr_rects", q)[1].arg = <<ZeroRect, RectA>>
        /\ Len(OfPage("post_process_cells", q)[1].arg) = 2

(* C6: a valid page is post-processed exactly once, after its last region   *)
(* and before it is yielded, with the cells of all its regions in region    *)
(* order and detection order (none when no region has an extent); nothing   *)
(* else touches a page's cell collection.                                   *)
C6_PostProcessOnce ==
    /\ \A q \in Pages : page_cells[q] = CellsGiven(q)
    /\ \A q \in Pages : Len(OfPage("post_process_cells", q)) <= 1
    /\ \A q \in ValidPages :
        /\ OfPage("post_process_cells", q) # <<>> <=> IdxOf("yield", q) # {}
        /\ \A k \in IdxOf("post_process_cells", q) :
            /\ \A j \in DOMAIN calls :
                (calls[j].page = q /\ calls[j].op \in {"is_valid", "get_ocr_rects",
                                                       "get_page_image", "recognize"})
                    => j < k
            /\ \A j \in IdxOf("yield", q) : k < j
            /\ Texts(calls[k].arg)
                 = Flatten([n \in DOMAIN Recognized(q) |-> Texts(Recognized(q)[n].arg.boxes)])
            /\ Cropboxes(Recognized(q))
                 = SelectSeq(OfPage("get_ocr_rects", q)[1].arg, HasExtent)
            /\ \A c \in DOMAIN calls[k].arg : calls[k].arg[c].from_ocr
    /\ \A q \in InvalidPages : OfPage("post_process_cells", q) = <<>>

C6_Witness ==
    /\ pc = "done"
    /\ Len(Recognized(1)) = 2
    /\ Texts(OfPage("post_process_cells", 1)[1].arg) = <<"a", "a", "b">>
    /\ 2 \in ValidPages
    /\ OfPage("post_process_cells", 2)[1].arg = <<>>

(* C7: the rect of a cell is left = x*W/S, top = ((1-y)*H - h*H)/S,         *)
(* right = (x*W + w*W)/S, bottom = (1-y)*H/S, top-left origin, for the      *)
(* rendered image's size (W, H) and the render scale S; detection           *)
(* (0.1, 0.2, 0.3, 0.1) on a 600x900 image at S = 3 gives (20, 210, 80,     *)
(* 240); left <= right and top <= bottom as w, h >= 0.  The equalities are  *)
(* stated over the integers, cross-multiplied.                              *)
C7_RectFormula ==
    /\ Len(cells) = Len(boxes)
    /\ \A i \in DOMAIN cells :
        LET W == high_res_image.width
            H == high_res_image.height
            S == scale
            x == boxes[i].box[1]
            y == boxes[i].box[2]
            w == boxes[i].box[3]
            h == boxes[i].box[4]
            rc == cells[i].rect
        IN  /\ rc.coord_origin = "TOPLEFT"
            /\ rc.l.d > 0 /\ rc.t.d > 0 /\ rc.r.d > 0 /\ rc.b.d > 0
            /\ rc.l.n * (x.d * S) = (x.n * W) * rc.l.d
            /\ rc.t.n * (y.d * h.d * S)
                 = ((y.d - y.n) * h.d * H - h.n * y.d * H) * rc.t.d
            /\ rc.r.n * (x.d * w.d * S) = (x.n * w.d * W + w.n * x.d * W) * rc.r.d
            /\ rc.b.n * (y.d * S) = ((y.d - y.n) * H) * rc.b.d
            /\ (w.n >= 0 /\ h.n >= 0) =>
                 /\ rc.l.n * rc.r.d <= rc.r.n * rc.l.d
                 /\ rc.t.n * rc.b.d <= rc.b.n * rc.t.d
            /\ (W = 600 /\ H = 900 /\ S = 3 /\ boxes[i].box
                    = <<[n |-> 1, d |-> 10], [n |-> 1, d |-> 5],
                        [n |-> 3, d |-> 10], [n |-> 1, d |-> 10]>>)
                 => /\ rc.l = [n |-> 20, d |-> 1]
                    /\ rc.t = [n |-> 210, d |-> 1]
                    /\ rc.r = [n |-> 80, d |-> 1]
                    /\ rc.b = [n |-> 240, d |-> 1]

C7_Witness ==
    /\ pc = "rects"
    /\ high_res_image.width = 600 /\ high_res_image.height = 900
    /\ Len(cells) = 2
    /\ cells[1].rect.l = [n |-> 20, d |-> 1]
    /\ cells[1].text = "a"
    /\ cells[2].rect.l = cells[2].rect.r

(* C8: a cell's index is the zero-based position of its detection in its    *)
(* own region's detection list; the list handed to post_process_cells       *)
(* carries 0..n-1 for each region in turn, so two regions of 2 detections   *)
(* give [0, 1, 0, 1].                                                       *)
C8_IndexPerRegion ==
    /\ \A i \in DOMAIN cells : cells[i].index = i - 1 /\ cells[i].text = boxes[i].text
    /\ \A k \in DOMAIN calls :
        calls[k].op = "post_process_cells" =>
            LET rec == Recognized(calls[k].page)
            IN  /\ Indices(calls[k].arg)
                     = Flatten([n \in DOMAIN rec |-> UpFrom0(Len(rec[n].arg.boxes))])
                /\ (Len(rec) = 2 /\ Len(rec[1].arg.boxes) = 2 /\ Len(rec[2].arg.boxes) = 2)
                     => Indices(calls[k].arg) = <<0, 1, 0, 1>>

C8_Witness ==
    \E k \in DOMAIN calls :
        /\ calls[k].op = "post_process_cells"
        /\ Len(Recognized(calls[k].page)) = 2
        /\ Indices(calls[k].arg) = <<0, 1, 0, 1>>

(* C9: a failed render or recognition call ends the generator: it is the    *)
(* last thing that happens, the page it happened on is not post-processed,  *)
(* keeps its cells and is not yielded, and the pages yielded before keep    *)
(* the cells they were given.                                               *)
C9_FailurePropagates ==
    /\ \A i \in DOMAIN calls :
        ~calls[i].ok =>
            /\ i = Len(calls)
            /\ pc = "failed"
            /\ calls[i].op \in {"get_page_image", "recognize"}
            /\ calls[i].page = page
    /\ pc = "failed" =>
        /\ Failed
        /\ \A k \in DOMAIN yielded : yielded[k] # page
        /\ Len(yielded) = pos - 1
        /\ OfPage("post_process_cells", page) = <<>>
        /\ OfPage("yield", page) = <<>>
        /\ page_cells[page] = InitialCells
        /\ \A k \in DOMAIN yielded : page_cells[yielded[k]] = CellsGiven(yielded[k])

C9_Witness ==
    /\ pc = "failed"
    /\ Len(yielded) = 1
    /\ all_ocr_cells # <<>>
    /\ ri = 2
    /\ calls[Len(calls)].op = "get_page_image"

(* C10: the rendered image of a region is held only while that region is    *)
(* recognised: it is not held when the region loop moves on, when the page  *)
(* is post-processed and yielded, or when a later page is processed.        *)
C10_ImageScoped ==
    pc \in {"rects", "loop"} => high_res_image = None

====
